---- MODULE Spec2Model ----
(***************************************************************************)
(* Distributed integration of 1/ln(x): the coordinator (ServerApp) of      *)
(* src/server/server_main.cpp and the worker (ClientApp) of                *)
(* src/client/client_main.cpp, as state machines driven by Qt's event loop.*)
(*                                                                         *)
(* Reals (C++ double) are modelled as exact rationals [n, d] in lowest     *)
(* terms; rounding error of floating point is not modelled.                *)
(***************************************************************************)
EXTENDS Integers, Sequences, FiniteSets, TLC

\* ------------------------------------------------------------------ bounds
\* Largest number of connections the listening socket ever sees.
MaxClients == 3
\* Largest number of dropped frames counted in rejectedFrames.
MaxRejected == 1
\* Most Task frames written to one connection.
MaxTasks == 2
\* Framing: the most frames sent on one connection, the longest payload.
MaxFrames == 2
MaxPayloadLen == 2
\* sizeof(quint32), the size of the length prefix.
PrefixSize == 4
\* kProtocolMagic = 0x4E50524A and kProtocolVersion.
kProtocolMagic == 1313886794
kProtocolVersion == 1

\* The runs tried, <<N, A, B>> as entered at the prompts (main() rejects
\* N <= 0): one peer and three peers on [3, 0] (B < A, 1 inside, parts that
\* end at fractions), two peers on [2, 10].
Configs == { <<1, 3, 0>>, <<2, 2, 10>>, <<3, 3, 0>> }
\* Step h entered at the prompt (main() rejects h <= 0) and method selector.
StepInputs == { 1 }
MethodInputs == { "Simpson" }
\* Core counts a Hello frame may carry (quint32); a worker advertises >= 1.
CoreValues == { 0, 1, 3 }
WorkerCores == { 1, 3 }
\* Values a Result frame may carry.
ResultValues == { 2 }

\* ------------------------------------------------------------ rationals
Abs(x) == IF x < 0 THEN -x ELSE x

RECURSIVE GCD(_, _)
GCD(x, y) == IF y = 0 THEN x ELSE GCD(y, x % y)

\* n/d in lowest terms with a positive denominator (d # 0).
Rat(n, d) ==
    LET g == GCD(Abs(n), Abs(d))
        s == IF d < 0 THEN -1 ELSE 1
    IN  [n |-> (s * n) \div g, d |-> (s * d) \div g]

RInt(k) == [n |-> k, d |-> 1]

\* The operations bind their operands once (p is the pair of their values), so
\* that a nested expression is not evaluated again at each use.
RAdd(x, y) ==
    CHOOSE r \in {Rat(p[1].n * p[2].d + p[2].n * p[1].d, p[1].d * p[2].d) :
                      p \in {<<x, y>>}} : TRUE
RSub(x, y) ==
    CHOOSE r \in {Rat(p[1].n * p[2].d - p[2].n * p[1].d, p[1].d * p[2].d) :
                      p \in {<<x, y>>}} : TRUE
RMul(x, y) ==
    CHOOSE r \in {Rat(p[1].n * p[2].n, p[1].d * p[2].d) : p \in {<<x, y>>}} : TRUE
RDiv(x, y) ==
    CHOOSE r \in {Rat(p[1].n * p[2].d, p[1].d * p[2].n) : p \in {<<x, y>>}} : TRUE
RLe(x, y) == \E p \in {<<x, y>>} : p[1].n * p[2].d <= p[2].n * p[1].d
RLt(x, y) == \E p \in {<<x, y>>} : p[1].n * p[2].d < p[2].n * p[1].d
RMin(x, y) == CHOOSE r \in {IF RLe(p[1], p[2]) THEN p[1] ELSE p[2] : p \in {<<x, y>>}} : TRUE
RMax(x, y) == CHOOSE r \in {IF RLe(p[1], p[2]) THEN p[2] ELSE p[1] : p \in {<<x, y>>}} : TRUE

Max(x, y) == IF x >= y THEN x ELSE y

\* -------------------------------------------------------------- messages
\* What parseMessage hands to a handler: ok, and the typed body when ok.
Hello(c) == [ok |-> TRUE, type |-> "Hello", cores |-> c, value |-> 0]
Result(v) == [ok |-> TRUE, type |-> "Result", cores |-> 0, value |-> v]
Error == [ok |-> TRUE, type |-> "Error", cores |-> 0, value |-> 0]
TaskFrame == [ok |-> TRUE, type |-> "Task", cores |-> 0, value |-> 0]
BadFrame == [ok |-> FALSE, type |-> "Error", cores |-> 0, value |-> 0]

\* The entry of lastReport for a connection nothing was reported on.
NoReport == [ok |-> FALSE, type |-> "None", cores |-> 0, value |-> 0]

PeerFrames ==
    {Hello(c) : c \in CoreValues} \cup {Result(v) : v \in ResultValues}
        \cup {Error, TaskFrame, BadFrame}

\* ----------------------------------------------------------------- bytes
\* QDataStream << quint32: four bytes, most significant first.
WriteUInt32(v) ==
    << (v \div 16777216) % 256, (v \div 65536) % 256, (v \div 256) % 256, v % 256 >>

\* QDataStream >> quint32 on the first four bytes of buf.
ReadUInt32(buf) ==
    buf[1] * 16777216 + buf[2] * 65536 + buf[3] * 256 + buf[4]

\* QByteArray::left(n) and what remove(0, n) leaves.
Left(buf, n) == SubSeq(buf, 1, n)
RemoveLeft(buf, n) == SubSeq(buf, n + 1, Len(buf))

\* QDataStream << quint16 / quint8 and their readers.
WriteUInt16(v) == << (v \div 256) % 256, v % 256 >>
ReadUInt16(buf) == buf[1] * 256 + buf[2]
WriteUInt8(v) == << v % 256 >>
ReadUInt8(buf) == buf[1]

\* A double is its IEEE 754 bit pattern, given as four 16-bit words, the most
\* significant first; QDataStream writes its eight bytes in that order.
WriteDouble(d) ==
    WriteUInt16(d[1]) \o WriteUInt16(d[2]) \o WriteUInt16(d[3]) \o WriteUInt16(d[4])
ReadDouble(buf) ==
    << ReadUInt16(SubSeq(buf, 1, 2)), ReadUInt16(SubSeq(buf, 3, 4)),
       ReadUInt16(SubSeq(buf, 5, 6)), ReadUInt16(SubSeq(buf, 7, 8)) >>

\* A QString: null or not, and its UTF-16 code units.
NullText == [isNull |-> TRUE, units |-> << >>]
EmptyText == [isNull |-> FALSE, units |-> << >>]
Text(units) == [isNull |-> FALSE, units |-> units]

\* The bytes of the code units, each most significant byte first.
RECURSIVE WriteUnits(_)
WriteUnits(units) ==
    IF units = << >> THEN << >>
    ELSE WriteUInt16(Head(units)) \o WriteUnits(Tail(units))

ReadUnits(buf) ==
    [i \in 1 .. (Len(buf) \div 2) |-> ReadUInt16(SubSeq(buf, 2 * i - 1, 2 * i))]

\* Mutant: the length written is the number of code units.
WriteQString_unitCount(t) ==
    IF t.isNull THEN << 255, 255, 255, 255 >>
    ELSE WriteUInt32(Len(t.units)) \o WriteUnits(t.units)

\* QDataStream << QString: 0xFFFFFFFF for a null string, else the length in
\* bytes followed by the code units.
WriteQString(t) ==
    IF t.isNull THEN << 255, 255, 255, 255 >>
    ELSE WriteUInt32(2 * Len(t.units)) \o WriteUnits(t.units)

\* -------------------------------------------------------------- the codec
\* MessageType.
TypeHello == 1
TypeTask == 2
TypeResult == 3
TypeError == 4

\* The message structs after construction.
DefaultHello == [cores |-> 0]
DefaultTask ==
    [a |-> <<0, 0, 0, 0>>, b |-> <<0, 0, 0, 0>>, h |-> <<0, 0, 0, 0>>,
     method |-> 3, clientIndex |-> 0, clientCount |-> 0]
DefaultResult == [value |-> <<0, 0, 0, 0>>]
DefaultError == [text |-> NullText]
DefaultEnvelope ==
    [magic |-> kProtocolMagic, version |-> kProtocolVersion, type |-> TypeError]

\* struct ParsedMessage after construction.
DefaultParsedMessage ==
    [env |-> DefaultEnvelope, hello |-> DefaultHello, task |-> DefaultTask,
     result |-> DefaultResult, error |-> DefaultError, ok |-> FALSE,
     parseError |-> ""]

\* operator<< of Envelope and of the four bodies.
WriteEnvelope(e) ==
    WriteUInt32(e.magic) \o WriteUInt16(e.version) \o WriteUInt8(e.type)
WriteHello(m) == WriteUInt32(m.cores)
WriteTask(m) ==
    WriteDouble(m.a) \o WriteDouble(m.b) \o WriteDouble(m.h)
        \o WriteUInt8(m.method) \o WriteUInt32(m.clientIndex)
        \o WriteUInt32(m.clientCount)
WriteResult(m) == WriteDouble(m.value)
WriteError(m) == WriteQString(m.text)

\* serializeHello, serializeTask, serializeResult, serializeError.
SerializeHello(m) == WriteEnvelope([DefaultEnvelope EXCEPT !.type = TypeHello]) \o WriteHello(m)
SerializeTask(m) == WriteEnvelope([DefaultEnvelope EXCEPT !.type = TypeTask]) \o WriteTask(m)
SerializeResult(m) == WriteEnvelope([DefaultEnvelope EXCEPT !.type = TypeResult]) \o WriteResult(m)
SerializeError(m) == WriteEnvelope([DefaultEnvelope EXCEPT !.type = TypeError]) \o WriteError(m)

\* A QDataStream reading buf: its position and status.
Stream(buf) == [buf |-> buf, pos |-> 0, status |-> "Ok"]

\* n bytes are left to read.
CanRead(st, n) == Len(st.buf) - st.pos >= n
\* The next n bytes.
Taken(st, n) == SubSeq(st.buf, st.pos + 1, st.pos + n)
\* QDataStream::setStatus: the first status other than Ok is kept.
SetStatus(st, status) ==
    IF st.status = "Ok" THEN [st EXCEPT !.status = status] ELSE st
\* readBlock of n bytes: a short read takes what is left and sets ReadPastEnd.
Advance(st, n) ==
    IF CanRead(st, n) THEN [st EXCEPT !.pos = @ + n]
    ELSE SetStatus([st EXCEPT !.pos = Len(st.buf)], "ReadPastEnd")

\* operator>> of the integer and double types: 0 on a short read.
ReadUInt32At(st) == IF CanRead(st, 4) THEN ReadUInt32(Taken(st, 4)) ELSE 0
ReadUInt16At(st) == IF CanRead(st, 2) THEN ReadUInt16(Taken(st, 2)) ELSE 0
ReadUInt8At(st) == IF CanRead(st, 1) THEN ReadUInt8(Taken(st, 1)) ELSE 0
ReadDoubleAt(st) == IF CanRead(st, 8) THEN ReadDouble(Taken(st, 8)) ELSE <<0, 0, 0, 0>>

\* operator>>(QDataStream &, QString &): the stream after it and the string.
ReadQString(st) ==
    IF ~CanRead(st, 4) THEN [st |-> Advance(st, 4), text |-> EmptyText]
    ELSE LET prefix == Taken(st, 4)
             s1 == Advance(st, 4)
         IN  IF prefix = << 255, 255, 255, 255 >> THEN [st |-> s1, text |-> NullText]
             ELSE LET bytes == ReadUInt32(prefix)
                  IN  IF bytes = 0 THEN [st |-> s1, text |-> EmptyText]
                      ELSE IF bytes % 2 = 1
                      THEN [st |-> SetStatus(s1, "ReadCorruptData"), text |-> NullText]
                      ELSE IF ~CanRead(s1, bytes)
                      THEN [st |-> Advance(s1, bytes), text |-> NullText]
                      ELSE [st |-> Advance(s1, bytes),
                            text |-> Text(ReadUnits(Taken(s1, bytes)))]

\* operator>> of Envelope and of the four bodies: the stream after it and the value.
ReadEnvelope(st) ==
    LET s1 == Advance(st, 4)
        s2 == Advance(s1, 2)
    IN  [st |-> Advance(s2, 1),
         env |-> [magic |-> ReadUInt32At(st), version |-> ReadUInt16At(s1),
                  type |-> ReadUInt8At(s2)]]
ReadHello(st) == [st |-> Advance(st, 4), hello |-> [cores |-> ReadUInt32At(st)]]
ReadTask(st) ==
    LET s1 == Advance(st, 8)
        s2 == Advance(s1, 8)
        s3 == Advance(s2, 8)
        s4 == Advance(s3, 1)
        s5 == Advance(s4, 4)
    IN  [st |-> Advance(s5, 4),
         task |-> [a |-> ReadDoubleAt(st), b |-> ReadDoubleAt(s1),
                   h |-> ReadDoubleAt(s2), method |-> ReadUInt8At(s3),
                   clientIndex |-> ReadUInt32At(s4),
                   clientCount |-> ReadUInt32At(s5)]]
ReadResult(st) == [st |-> Advance(st, 8), result |-> [value |-> ReadDoubleAt(st)]]
ReadError(st) == [st |-> ReadQString(st).st, error |-> [text |-> ReadQString(st).text]]

\* Mutant: only the magic is compared.
EnvelopeMismatch_magicOnly(env) == env.magic # kProtocolMagic

\* The test "pm.env.magic != kProtocolMagic || pm.env.version != kProtocolVersion".
EnvelopeMismatch(env) ==
    env.magic # kProtocolMagic \/ env.version # kProtocolVersion

\* parseMessage(buf).
ParseMessage(buf) ==
    LET e == ReadEnvelope(Stream(buf))
        pm == [DefaultParsedMessage EXCEPT !.env = e.env]
        Done(body, st) ==
            IF st.status # "Ok"
            THEN [body EXCEPT !.parseError =
                      "QDataStream status not OK after reading message body"]
            ELSE [body EXCEPT !.ok = TRUE]
    IN  IF e.st.status # "Ok"
        THEN [pm EXCEPT !.parseError =
                  "QDataStream status not OK after reading envelope"]
        ELSE IF EnvelopeMismatch(e.env)
        THEN [pm EXCEPT !.parseError = "Protocol magic/version mismatch"]
        ELSE CASE e.env.type = TypeHello ->
                    Done([pm EXCEPT !.hello = ReadHello(e.st).hello], ReadHello(e.st).st)
               [] e.env.type = TypeTask ->
                    Done([pm EXCEPT !.task = ReadTask(e.st).task], ReadTask(e.st).st)
               [] e.env.type = TypeResult ->
                    Done([pm EXCEPT !.result = ReadResult(e.st).result], ReadResult(e.st).st)
               [] e.env.type = TypeError ->
                    Done([pm EXCEPT !.error = ReadError(e.st).error], ReadError(e.st).st)
               [] OTHER -> [pm EXCEPT !.parseError = "Unknown message type"]

\* serializeX by the type of the message.
SerializeMsg(m) ==
    CASE m.type = TypeHello -> SerializeHello(m.hello)
      [] m.type = TypeTask -> SerializeTask(m.task)
      [] m.type = TypeResult -> SerializeResult(m.result)
      [] OTHER -> SerializeError(m.error)

\* A message to serialize: its type and the body of that type.
HelloMessage(body) ==
    [type |-> TypeHello, hello |-> body, task |-> DefaultTask,
     result |-> DefaultResult, error |-> DefaultError]
TaskMessage(body) ==
    [type |-> TypeTask, hello |-> DefaultHello, task |-> body,
     result |-> DefaultResult, error |-> DefaultError]
ResultMessage(body) ==
    [type |-> TypeResult, hello |-> DefaultHello, task |-> DefaultTask,
     result |-> body, error |-> DefaultError]
ErrorMessage(body) ==
    [type |-> TypeError, hello |-> DefaultHello, task |-> DefaultTask,
     result |-> DefaultResult, error |-> body]
\* No message serialized yet.
NoMessage ==
    [type |-> 0, hello |-> DefaultHello, task |-> DefaultTask,
     result |-> DefaultResult, error |-> DefaultError]

\* Doubles by bit pattern: 0.0, 2.0, 10.0, 0.1, -0.5 and a NaN.
DoubleZero == <<0, 0, 0, 0>>
DoubleTwo == <<16384, 0, 0, 0>>
DoubleTen == <<16420, 0, 0, 0>>
DoubleTenth == <<16313, 39321, 39321, 39322>>
DoubleMinusHalf == <<49120, 0, 0, 0>>
DoubleNaN == <<32760, 0, 0, 0>>

\* The messages tried: core counts of one and of four significant bytes, a
\* task as the coordinator sends it and one with unusual fields, the null and
\* the empty string, an ASCII text ("x=1") and a non-ASCII one.
CodecMessages ==
    {HelloMessage([cores |-> c]) : c \in {0, 1, 16909060}}
        \cup {TaskMessage([a |-> DoubleTwo, b |-> DoubleTen, h |-> DoubleTenth,
                           method |-> 3, clientIndex |-> 1, clientCount |-> 2]),
              TaskMessage([a |-> DoubleMinusHalf, b |-> DoubleNaN, h |-> DoubleZero,
                           method |-> 1, clientIndex |-> 258,
                           clientCount |-> 16909060])}
        \cup {ResultMessage([value |-> v]) : v \in {DoubleZero, DoubleTenth, DoubleNaN}}
        \cup {ErrorMessage([text |-> t]) :
                  t \in {NullText, EmptyText, Text(<<120, 61, 49>>),
                         Text(<<233, 8747>>)}}

\* Values a damaged byte takes, and the bytes of the payload damage reaches:
\* the envelope and the first byte of the body.
DamageBytes == { 0, 3, 5 }
DamagePositions == 1 .. 8

VARIABLES
    m_expectedClients,  \* ServerApp::m_expectedClients (N)
    m_a, m_b, m_h, m_method, \* the global task, set by setTask
    m_clients,          \* ServerApp::m_clients: sequence of ClientState
    m_dispatched,       \* ServerApp::m_dispatched
    m_finished,         \* ServerApp::m_finished
    serverPc,           \* "running" while app.exec() runs, then "exited"
    pending,            \* connections established, not yet taken by nextPendingConnection
    peerOf,             \* per accepted connection: the worker behind it (0: none of ours)
    alive,              \* per accepted connection: the socket is still connected
    taskOut,            \* per accepted connection: the Task frames written to it
    finalReports,       \* the values logged as "FINAL RESULT"
    lastReport,         \* per accepted connection: the last Result/Error frame read from it
    wpc,                \* per worker: position of ClientApp
    toServer,           \* per worker: messages passed to sendFrame, not yet read by the server
    taskRead,           \* per worker: number of frames it has read from its socket
    rejectedFrames,     \* frames onFrame has logged a warning for and dropped
    reportOrder,        \* the connections in the order their Result/Error frames were handled
    m_buffer,           \* FramedSocket::m_buffer of a receiving FramedSocket
    m_expectedSize,     \* FramedSocket::m_expectedSize of the same
    socketBytes,        \* bytes written to its socket, not yet taken by readAll
    framesSent,         \* the payloads passed to sendFrame at the other end
    framesReceived,     \* the payloads emitted with frameReceived
    codecMsg,           \* the message given to serializeHello/Task/Result/Error
    codecBuf,           \* the payload bytes handed to parseMessage
    codecPm,            \* the ParsedMessage parseMessage returned
    engineCall,         \* the arguments of a call of Integrator::integrate
    engineResult        \* what the call did: threw, with what text, or the value

vars ==
    <<m_expectedClients, m_a, m_b, m_h, m_method, m_clients, m_dispatched,
      m_finished, serverPc, pending, peerOf, alive, taskOut, finalReports,
      lastReport, wpc, toServer, taskRead, rejectedFrames, reportOrder,
      m_buffer, m_expectedSize, socketBytes, framesSent, framesReceived,
      codecMsg, codecBuf, codecPm, engineCall, engineResult>>

serverVars ==
    <<m_clients, m_dispatched, m_finished, taskOut, finalReports, lastReport>>
configVars == <<m_expectedClients, m_a, m_b, m_h, m_method>>
workerVars == <<wpc, toServer, taskRead>>
\* What only the specifications further down observe or use.
framingVars == <<m_buffer, m_expectedSize, socketBytes, framesSent, framesReceived>>
codecVars == <<codecMsg, codecBuf, codecPm>>
engineVars == <<engineCall, engineResult>>
orderVars == <<reportOrder>>
pureVars == <<framingVars, codecVars, engineVars, orderVars>>
sideVars == <<rejectedFrames, pureVars>>

Workers == 1 .. m_expectedClients

\* ----------------------------------------------------------- coordinator
\* struct ClientState after construction.
NewClientState ==
    [cores |-> 0, helloReceived |-> FALSE, resultReceived |-> FALSE, result |-> 0]

Init ==
    /\ \E c \in Configs :
           m_expectedClients = c[1] /\ m_a = c[2] /\ m_b = c[3]
    /\ m_h \in StepInputs
    /\ m_method \in MethodInputs
    /\ m_clients = << >>
    /\ m_dispatched = FALSE
    /\ m_finished = FALSE
    /\ serverPc = "running"
    /\ pending = << >>
    /\ peerOf = << >>
    /\ alive = << >>
    /\ taskOut = << >>
    /\ finalReports = << >>
    /\ lastReport = << >>
    /\ wpc = [w \in Workers |-> "start"]
    /\ toServer = [w \in Workers |-> << >>]
    /\ taskRead = [w \in Workers |-> 0]
    /\ rejectedFrames = 0
    /\ reportOrder = << >>
    /\ m_buffer = << >>
    /\ m_expectedSize = 0
    /\ socketBytes = << >>
    /\ framesSent = << >>
    /\ framesReceived = << >>
    /\ codecMsg = NoMessage
    /\ codecBuf = << >>
    /\ codecPm = << >>
    /\ engineCall = << >>
    /\ engineResult = << >>

\* A run of one peer; the specifications of the single components start from
\* it and leave the run where it is.
InitSingle == Init /\ m_expectedClients = 1

\* Mutant: avoids a zero weight by adding one instead of taking the maximum.
Weight_plusOne(cores) == cores + 1

\* The weight of a peer: std::max<quint32>(1u, c.cores).
Weight(cores) == Max(1, cores)

\* totalCores: the sum of the weights of all clients.
RECURSIVE SumWeights(_, _)
SumWeights(clients, i) ==
    IF i > Len(clients) THEN 0
    ELSE Weight(clients[i].cores) + SumWeights(clients, i + 1)

TotalCores(clients) == SumWeights(clients, 1)

\* Mutant: looks at the first client only.
AllHello_first(clients) == Len(clients) > 0 => clients[1].helloReceived

\* The loop over m_clients that returns at the first client without a Hello.
AllHello(clients) == \A i \in 1 .. Len(clients) : clients[i].helloReceived

\* Mutant: is content with one client that has reported.
AllReported_any(clients) == \E i \in 1 .. Len(clients) : clients[i].resultReceived

\* The loop over m_clients that returns at the first client without a report.
AllReported(clients) == \A i \in 1 .. Len(clients) : clients[i].resultReceived

\* sum += c.result over m_clients.
RECURSIVE SumFrom(_, _)
SumFrom(clients, i) ==
    IF i > Len(clients) THEN 0
    ELSE clients[i].result + SumFrom(clients, i + 1)

SumResults(clients) == SumFrom(clients, 1)

\* bPart: the last client's part ends at m_b, any other at cursor + partLen.
PartEnd(last, cursor, partLen, b) ==
    IF last THEN b ELSE RAdd(cursor, partLen)

\* Mutant: the cursor is not moved.
AdvanceCursor_stale(cursor, bPart) == cursor

\* cursor = bPart.
AdvanceCursor(cursor, bPart) == bPart

\* One TaskMsg.
TaskMsg(a, b, h, method, clientIndex, clientCount) ==
    [a |-> a, b |-> b, h |-> h, method |-> method,
     clientIndex |-> clientIndex, clientCount |-> clientCount]

\* The dispatch loop from client i (1-based here, i - 1 in the code) on.
RECURSIVE PartitionFrom(_, _, _)
PartitionFrom(i, cursor, clients) ==
    IF i > Len(clients) THEN << >>
    ELSE LET len == RSub(RInt(m_b), RInt(m_a))
             cores == Weight(clients[i].cores)
             frac == RDiv(RInt(cores), RInt(TotalCores(clients)))
             partLen == RMul(len, frac)
             aPart == cursor
             bPart == PartEnd(i = Len(clients), cursor, partLen, RInt(m_b))
         IN  <<TaskMsg(aPart, bPart, m_h, m_method, i - 1, Len(clients))>>
                 \o PartitionFrom(i + 1, AdvanceCursor(cursor, bPart), clients)

\* The tasks of one dispatch, in m_clients order; cursor starts at m_a.
Partition(clients) == PartitionFrom(1, RInt(m_a), clients)

\* Mutant: the guard is missing.
AlreadyDispatched_never == FALSE

\* The guard "if (m_dispatched) return".
AlreadyDispatched == m_dispatched

\* maybeDispatchTasks, called with the clients as the Hello handler left them.
MaybeDispatchTasks(clients) ==
    IF /\ ~AlreadyDispatched
       /\ m_expectedClients > 0
       /\ Len(clients) = m_expectedClients
       /\ AllHello(clients)
    THEN /\ taskOut' = [i \in 1 .. Len(taskOut) |->
                            Append(taskOut[i], Partition(clients)[i])]
         /\ m_dispatched' = TRUE
    ELSE UNCHANGED <<taskOut, m_dispatched>>

\* maybeFinalize, called with the clients as the Result/Error handler left them.
MaybeFinalize(clients) ==
    IF m_dispatched /\ ~m_finished /\ AllReported(clients)
    THEN /\ finalReports' = Append(finalReports, SumResults(clients))
         /\ m_finished' = TRUE
    ELSE UNCHANGED <<finalReports, m_finished>>

\* Mutant: an Error marks the client as reported and keeps its stored result.
ApplyError_keep(c, pm) == [c EXCEPT !.resultReceived = TRUE]

\* Mutant: an Error zeroes the result and does not mark the client as reported.
ApplyError_unreported(c, pm) == [c EXCEPT !.result = 0]

\* The three branches of onFrame on the ClientState c.
ApplyHello(c, pm) == [c EXCEPT !.helloReceived = TRUE, !.cores = pm.cores]
ApplyResult(c, pm) == [c EXCEPT !.resultReceived = TRUE, !.result = pm.value]
ApplyError(c, pm) == [c EXCEPT !.resultReceived = TRUE, !.result = 0]

\* Mutant: a peer that has left is no longer waited for.
OnClientDisconnected_giveUp(idx) ==
    /\ serverPc = "running"
    /\ idx \in 1 .. Len(m_clients)
    /\ alive[idx]
    /\ alive' = [alive EXCEPT ![idx] = FALSE]
    /\ m_clients' = [m_clients EXCEPT ![idx].resultReceived = TRUE]
    /\ UNCHANGED <<configVars, sideVars, m_dispatched, m_finished, taskOut,
                   finalReports, lastReport, serverPc, pending, peerOf, workerVars>>

\* Mutant: the guard on pm.ok is missing.
ParseFailed_never(pm) == FALSE

\* The guard "if (!pm.ok) return" of onFrame.
ParseFailed(pm) == ~pm.ok

\* ServerApp::onFrame(idx, payload), pm being parseMessage(payload).
OnFrame(idx, pm) ==
    /\ serverPc = "running"
    /\ idx \in 1 .. Len(m_clients)
    /\ lastReport' =
           IF pm.ok /\ pm.type \in {"Result", "Error"}
           THEN [lastReport EXCEPT ![idx] = pm]
           ELSE lastReport
    /\ IF ParseFailed(pm)
       THEN UNCHANGED <<m_clients, m_dispatched, m_finished, taskOut, finalReports>>
       ELSE CASE pm.type = "Hello" ->
                   LET cs == [m_clients EXCEPT ![idx] = ApplyHello(@, pm)]
                   IN  /\ m_clients' = cs
                       /\ MaybeDispatchTasks(cs)
                       /\ UNCHANGED <<m_finished, finalReports>>
              [] pm.type = "Result" ->
                   LET cs == [m_clients EXCEPT ![idx] = ApplyResult(@, pm)]
                   IN  /\ m_clients' = cs
                       /\ MaybeFinalize(cs)
                       /\ UNCHANGED <<m_dispatched, taskOut>>
              [] pm.type = "Error" ->
                   LET cs == [m_clients EXCEPT ![idx] = ApplyError(@, pm)]
                   IN  /\ m_clients' = cs
                       /\ MaybeFinalize(cs)
                       /\ UNCHANGED <<m_dispatched, taskOut>>
              [] OTHER ->
                   UNCHANGED <<m_clients, m_dispatched, m_finished, taskOut,
                               finalReports>>

\* ServerApp::onNewConnection: takes every pending connection.
OnNewConnection ==
    /\ serverPc = "running"
    /\ pending # << >>
    /\ m_clients' = m_clients \o [i \in 1 .. Len(pending) |-> NewClientState]
    /\ peerOf' = peerOf \o pending
    /\ alive' = alive \o [i \in 1 .. Len(pending) |-> TRUE]
    /\ taskOut' = taskOut \o [i \in 1 .. Len(pending) |-> << >>]
    /\ lastReport' = lastReport \o [i \in 1 .. Len(pending) |-> NoReport]
    /\ pending' = << >>
    /\ UNCHANGED <<configVars, sideVars, m_dispatched, m_finished, serverPc, finalReports,
                   workerVars>>

\* ServerApp::onClientDisconnected(idx): logs, changes nothing of ServerApp.
OnClientDisconnected(idx) ==
    /\ serverPc = "running"
    /\ idx \in 1 .. Len(m_clients)
    /\ alive[idx]
    /\ alive' = [alive EXCEPT ![idx] = FALSE]
    /\ UNCHANGED <<configVars, sideVars, serverVars, serverPc, pending, peerOf, workerVars>>

\* app.exec() returns once control is back in the event loop after quit().
ServerExit ==
    /\ serverPc = "running"
    /\ m_finished
    /\ serverPc' = "exited"
    /\ UNCHANGED <<configVars, sideVars, serverVars, pending, peerOf, alive, workerVars>>

\* ------------------------------------------- environment of the coordinator
\* Some peer connects to the listening port.
EnvConnect ==
    /\ serverPc = "running"
    /\ Len(m_clients) + Len(pending) < MaxClients
    /\ pending' = Append(pending, 0)
    /\ UNCHANGED <<configVars, sideVars, serverVars, serverPc, peerOf, alive, workerVars>>

\* A frame of any content arrives on an accepted connection.
EnvFrame ==
    \E idx \in 1 .. Len(m_clients), pm \in PeerFrames :
        /\ alive[idx]
        /\ peerOf[idx] = 0
        /\ OnFrame(idx, pm)
        /\ UNCHANGED <<configVars, sideVars, serverPc, pending, peerOf, alive, workerVars>>

\* A peer closes its connection. Not a step of Next: to the coordinator a
\* closed peer is a peer that sends no further frame, which Next already allows.
\* It is a step of NextPeer.
EnvDisconnect ==
    \E idx \in 1 .. Len(m_clients) :
        /\ peerOf[idx] = 0
        /\ OnClientDisconnected(idx)

\* The coordinator alone, under any connections and any frames.
Next ==
    \/ EnvConnect
    \/ OnNewConnection
    \/ EnvFrame
    \/ ServerExit

Spec == Init /\ [][Next]_vars

\* ------------------------------------------ peers that misbehave or leave
\* onFrame logs a warning and returns: "Failed to parse message from client"
\* or "Unexpected message type from client".
Warns(pm) == ~pm.ok \/ pm.type \notin {"Hello", "Result", "Error"}

\* One of the N peers of the run connects to the listening port.
PeerConnect ==
    /\ serverPc = "running"
    /\ Len(m_clients) + Len(pending) < m_expectedClients
    /\ pending' = Append(pending, 0)
    /\ UNCHANGED <<configVars, sideVars, serverVars, serverPc, peerOf, alive, workerVars>>

\* Frame pm arrives on connection idx, which is still open; the warnings
\* onFrame logs are counted.
PeerFrameOn(idx, pm) ==
    /\ alive[idx]
    /\ peerOf[idx] = 0
    /\ Warns(pm) => rejectedFrames < MaxRejected
    /\ OnFrame(idx, pm)
    /\ rejectedFrames' = IF Warns(pm) THEN rejectedFrames + 1 ELSE rejectedFrames
    /\ UNCHANGED <<configVars, pureVars, serverPc, pending, peerOf, alive, workerVars>>

\* A frame of any content arrives on some connection.
PeerFrame ==
    \E idx \in 1 .. Len(m_clients), pm \in PeerFrames : PeerFrameOn(idx, pm)

\* The coordinator with N peers that send any frames and close their
\* connection at any time.
NextPeer ==
    \/ PeerConnect
    \/ OnNewConnection
    \/ PeerFrame
    \/ EnvDisconnect
    \/ ServerExit

PeerSpec == Init /\ [][NextPeer]_vars

\* ------------------------------------------------ reports in any order
\* The frames a peer reports with: a Result with one of two values, or an Error.
ReportFrames == {Result(1), Result(2), Error}

\* The Hello of a peer that has not advertised yet arrives.
HelloArrives ==
    \E idx \in 1 .. Len(m_clients), cores \in CoreValues :
        /\ ~m_clients[idx].helloReceived
        /\ OnFrame(idx, Hello(cores))
        /\ UNCHANGED <<configVars, sideVars, serverPc, pending, peerOf, alive, workerVars>>

\* After dispatch the Result or Error of a peer that has not reported yet
\* arrives; reportOrder records whose it is.
ReportArrives ==
    \E idx \in 1 .. Len(m_clients), pm \in ReportFrames :
        /\ m_dispatched
        /\ \A k \in 1 .. Len(reportOrder) : reportOrder[k] # idx
        /\ OnFrame(idx, pm)
        /\ reportOrder' = Append(reportOrder, idx)
        /\ UNCHANGED <<configVars, rejectedFrames, framingVars, codecVars, engineVars,
                       serverPc, pending, peerOf, alive, workerVars>>

NextReport ==
    \/ PeerConnect
    \/ OnNewConnection
    \/ HelloArrives
    \/ ReportArrives
    \/ ServerExit

\* The coordinator with N peers that advertise once and, after dispatch,
\* report once each, in any order.
ReportSpec == Init /\ [][NextReport]_vars

\* -------------------------------------------------------------- quadrature
RAbs(x) == CHOOSE r \in {Rat(Abs(p.n), p.d) : p \in {x}} : TRUE
\* std::floor of a rational that is not negative.
RFloor(x) == x.n \div x.d

\* A value the engine computes is kept exact: it is the sum of c * f(x) over
\* its terms [x, c], f being 1/ln; the points x are distinct, no c is 0.
FZero == {}
FTerm(x, c) == IF c.n = 0 THEN {} ELSE {[x |-> x, c |-> c]}
FCoef(S, x) ==
    IF \E t \in S : t.x = x THEN (CHOOSE t \in S : t.x = x).c ELSE RInt(0)
\* Like the rationals, the sums bind their operands once.
FAdd(S, T) ==
    CHOOSE r \in {{t \in {[x |-> x, c |-> RAdd(FCoef(p[1], x), FCoef(p[2], x))] :
                            x \in {u.x : u \in p[1] \cup p[2]}} : t.c.n # 0} :
                      p \in {<<S, T>>}} : TRUE
FScale(k, S) ==
    CHOOSE r \in {{t \in {[x |-> u.x, c |-> RMul(p[1], u.c)] : u \in p[2]} : t.c.n # 0} :
                      p \in {<<k, S>>}} : TRUE

\* Mutant: the remainder counts as one more step.
StepsCount_roundUp(a, b, h) == RFloor(RDiv(RAbs(RSub(b, a)), h)) + 1

\* stepsCount: floor(|b - a| / h).
StepsCount(a, b, h) == RFloor(RDiv(RAbs(RSub(b, a)), h))
\* dir * h.
Step(a, b, h) == IF RLt(a, b) THEN h ELSE RSub(RInt(0), h)

\* The loop of integrateMidpoint from step i on, x being its running point.
RECURSIVE MidpointSum(_, _, _, _)
MidpointSum(x, step, i, n) ==
    IF i >= n THEN FZero
    ELSE FAdd(FTerm(RAdd(x, RMul(step, Rat(1, 2))), RInt(1)),
              MidpointSum(RAdd(x, step), step, i + 1, n))

IntegrateMidpoint(a, b, h) ==
    FScale(Step(a, b, h), MidpointSum(a, Step(a, b, h), 0, StepsCount(a, b, h)))

\* The loop of integrateTrapezoids from step i on, x0 being its running point.
RECURSIVE TrapezoidSum(_, _, _, _)
TrapezoidSum(x0, step, i, n) ==
    IF i >= n THEN FZero
    ELSE FAdd(FAdd(FTerm(x0, Rat(1, 2)), FTerm(RAdd(x0, step), Rat(1, 2))),
              TrapezoidSum(RAdd(x0, step), step, i + 1, n))

IntegrateTrapezoids(a, b, h) ==
    IF StepsCount(a, b, h) = 0 THEN FZero
    ELSE FScale(Step(a, b, h),
                TrapezoidSum(a, Step(a, b, h), 0, StepsCount(a, b, h)))

\* The loop of integrateSimpson from i on: 4 * s1 + 2 * s2.
RECURSIVE SimpsonInner(_, _, _, _)
SimpsonInner(a, step, i, n) ==
    IF i >= n THEN FZero
    ELSE FAdd(FTerm(RAdd(a, RMul(RInt(i), step)),
                    IF i % 2 = 1 THEN RInt(4) ELSE RInt(2)),
              SimpsonInner(a, step, i + 1, n))

IntegrateSimpson(a, b, h) ==
    LET n0 == StepsCount(a, b, h)
        n == IF n0 % 2 = 1 THEN n0 - 1 ELSE n0
        step == Step(a, b, h)
    IN  IF n0 < 2 THEN IntegrateTrapezoids(a, b, h)
        ELSE FScale(RDiv(step, RInt(3)),
                    FAdd(FAdd(FTerm(a, RInt(1)), SimpsonInner(a, step, 1, n)),
                         FTerm(RAdd(a, RMul(RInt(n), step)), RInt(1))))

\* Integrator::intervalContainsSingularity.
IntervalContainsSingularity(a, b) ==
    LET lo == RMin(a, b)
        hi == RMax(a, b)
    IN  RLe(lo, RInt(1)) /\ RLe(RInt(1), hi)

\* What a call of integrate does: it throws std::invalid_argument(what) or
\* returns a value.
Throw(what) == [threw |-> TRUE, what |-> what, value |-> FZero]
Return(value) == [threw |-> FALSE, what |-> "", value |-> value]

\* Mutant: only a step of exactly 0 is refused.
StepInvalid_zeroOnly(h) == h.n = 0

\* The test "!(h > 0.0)".
StepInvalid(h) == ~RLt(RInt(0), h)

\* Mutant: the test for the singularity comes before the test a == b.
Integrate_singularityFirst(a, b, h, method) ==
    IF StepInvalid(h) THEN Throw("Step h must be > 0")
    ELSE IF IntervalContainsSingularity(a, b)
    THEN Throw("Integration interval contains x=1 singularity")
    ELSE IF a = b THEN Return(FZero)
    ELSE CASE method = "MidpointRectangles" -> Return(IntegrateMidpoint(a, b, h))
           [] method = "Trapezoids" -> Return(IntegrateTrapezoids(a, b, h))
           [] method = "Simpson" -> Return(IntegrateSimpson(a, b, h))
           [] OTHER -> Throw("Unknown method type")

\* Integrator::integrate.
Integrate(a, b, h, method) ==
    IF StepInvalid(h) THEN Throw("Step h must be > 0")
    ELSE IF a = b THEN Return(FZero)
    ELSE IF IntervalContainsSingularity(a, b)
    THEN Throw("Integration interval contains x=1 singularity")
    ELSE CASE method = "MidpointRectangles" -> Return(IntegrateMidpoint(a, b, h))
           [] method = "Trapezoids" -> Return(IntegrateTrapezoids(a, b, h))
           [] method = "Simpson" -> Return(IntegrateSimpson(a, b, h))
           [] OTHER -> Throw("Unknown method type")

\* ------------------------------------------------------------------ worker
\* The connection of m_clients that worker w is behind, 0 before it is accepted.
ConnOf(w) ==
    IF \E i \in 1 .. Len(peerOf) : peerOf[i] = w
    THEN CHOOSE i \in 1 .. Len(peerOf) : peerOf[i] = w
    ELSE 0

\* What the worker passes to sendFrame: a HelloMsg, a ResultMsg with its value
\* (kept exact) or an ErrorMsg with its text.
SentHello(cores) == [type |-> "Hello", cores |-> cores, value |-> FZero, text |-> ""]
SentResult(value) == [type |-> "Result", cores |-> 0, value |-> value, text |-> ""]
SentError(text) == [type |-> "Error", cores |-> 0, value |-> FZero, text |-> text]

\* What parseMessage hands to the coordinator for a frame a worker sent; the
\* double a Result carries is any of ResultValues.
Received(msg) ==
    CASE msg.type = "Hello" -> {Hello(msg.cores)}
      [] msg.type = "Result" -> {Result(v) : v \in ResultValues}
      [] OTHER -> {Error}

\* The chunk of thread i (0-based) in computeAndSend.
ChunkA(task, threads, i) ==
    RAdd(task.a, RMul(RInt(i), RDiv(RSub(task.b, task.a), RInt(threads))))

ChunkB(task, threads, i) ==
    IF i + 1 = threads THEN task.b
    ELSE RAdd(ChunkA(task, threads, i), RDiv(RSub(task.b, task.a), RInt(threads)))

\* What future i holds: integrateChunk on the chunk of thread i.
ChunkResult(task, threads, i) ==
    Integrate(ChunkA(task, threads, i), ChunkB(task, threads, i), RInt(task.h),
              task.method)

\* Mutant: only the first future is looked at for a failure.
ComputeFails_firstOnly(task, threads) == ChunkResult(task, threads, 0).threw

\* Some future of computeAndSend rethrows at waitForFinished/result.
ComputeFails(task, threads) ==
    \E i \in 0 .. (threads - 1) : ChunkResult(task, threads, i).threw

\* The first future, in the order of the loop, that rethrows.
FirstFailure(task, threads) ==
    CHOOSE i \in 0 .. (threads - 1) :
        /\ ChunkResult(task, threads, i).threw
        /\ \A j \in 0 .. (i - 1) : ~ChunkResult(task, threads, j).threw

\* sum += f.result() over the futures from i on.
RECURSIVE SumChunks(_, _, _)
SumChunks(task, threads, i) ==
    IF i >= threads THEN FZero
    ELSE FAdd(ChunkResult(task, threads, i).value, SumChunks(task, threads, i + 1))

\* computeAndSend(task): the message it passes to sendFrame, an ErrorMsg with
\* e.what() when a future rethrew, else a ResultMsg with the sum.
ComputeAndSend(task, threads) ==
    IF ComputeFails(task, threads)
    THEN SentError(ChunkResult(task, threads, FirstFailure(task, threads)).what)
    ELSE SentResult(SumChunks(task, threads, 0))

\* What is passed to sendFrame for the Task frames of one read, in order.
RECURSIVE RepliesTo(_, _)
RepliesTo(tasks, threads) ==
    IF tasks = << >> THEN << >>
    ELSE << ComputeAndSend(Head(tasks), threads) >> \o RepliesTo(Tail(tasks), threads)

\* ClientApp::connectTo: the connection reaches the listening socket.
ClientConnectTo ==
    \E w \in Workers :
        /\ wpc[w] = "start"
        /\ serverPc = "running"
        /\ wpc' = [wpc EXCEPT ![w] = "connecting"]
        /\ pending' = Append(pending, w)
        /\ UNCHANGED <<configVars, sideVars, serverVars, serverPc, peerOf, alive, toServer,
                       taskRead>>

\* ClientApp::onConnected: sends Hello with max(1, idealThreadCount()).
ClientOnConnected ==
    \E w \in Workers, cores \in WorkerCores :
        /\ wpc[w] = "connecting"
        /\ wpc' = [wpc EXCEPT ![w] = "connected"]
        /\ toServer' = [toServer EXCEPT ![w] = Append(@, SentHello(cores))]
        /\ UNCHANGED <<configVars, sideVars, serverVars, serverPc, pending, peerOf, alive,
                       taskRead>>

\* FramedSocket::onReadyRead at the worker, with k Task frames in what readAll
\* returns: ClientApp::onFrame runs computeAndSend on each of them in turn.
\* computeAndSend passes one message to sendFrame and calls disconnectFromHost.
ClientOnFrame ==
    \E w \in Workers, threads \in WorkerCores, k \in 1 .. MaxTasks :
        /\ wpc[w] = "connected"
        /\ ConnOf(w) # 0
        /\ taskRead[w] + k <= Len(taskOut[ConnOf(w)])
        /\ toServer' =
               [toServer EXCEPT ![w] =
                    @ \o RepliesTo(SubSeq(taskOut[ConnOf(w)], taskRead[w] + 1,
                                          taskRead[w] + k), threads)]
        /\ taskRead' = [taskRead EXCEPT ![w] = @ + k]
        /\ wpc' = [wpc EXCEPT ![w] = "closing"]
        /\ UNCHANGED <<configVars, sideVars, serverVars, serverPc, pending, peerOf, alive>>

\* ClientApp::onDisconnected: quit(), app.exec() returns.
ClientOnDisconnected ==
    \E w \in Workers :
        /\ wpc[w] = "closing"
        /\ wpc' = [wpc EXCEPT ![w] = "exited"]
        /\ UNCHANGED <<configVars, sideVars, serverVars, serverPc, pending, peerOf, alive,
                       toServer, taskRead>>

\* The server reads the next frame a worker wrote.
ServerReadyRead ==
    \E idx \in 1 .. Len(m_clients) :
        /\ peerOf[idx] # 0
        /\ alive[idx]
        /\ toServer[peerOf[idx]] # << >>
        /\ \E pm \in Received(Head(toServer[peerOf[idx]])) : OnFrame(idx, pm)
        /\ toServer' = [toServer EXCEPT ![peerOf[idx]] = Tail(@)]
        /\ UNCHANGED <<configVars, sideVars, serverPc, pending, peerOf, alive, wpc, taskRead>>

\* The server sees a worker's connection closed, after the worker's last bytes.
ServerDisconnected ==
    \E idx \in 1 .. Len(m_clients) :
        /\ peerOf[idx] # 0
        /\ wpc[peerOf[idx]] \in {"closing", "exited"}
        /\ toServer[peerOf[idx]] = << >>
        /\ OnClientDisconnected(idx)

NextSys ==
    \/ ClientConnectTo
    \/ ClientOnConnected
    \/ OnNewConnection
    \/ ServerReadyRead
    \/ ClientOnFrame
    \/ ClientOnDisconnected
    \/ ServerDisconnected
    \/ ServerExit

\* The worker against any coordinator: the Task frames written to it.
WorkerTasks ==
    {TaskMsg(RInt(i[1]), RInt(i[2]), h, "Simpson", 0, 1) :
         i \in { <<4, 10>>, <<3, 0>> }, h \in { 0, 1 }}

\* Some coordinator writes a Task frame to the connection of a worker.
CoordinatorTask ==
    \E w \in Workers, task \in WorkerTasks :
        /\ ConnOf(w) # 0
        /\ wpc[w] \in {"connecting", "connected"}
        /\ Len(taskOut[ConnOf(w)]) < MaxTasks
        /\ taskOut' = [taskOut EXCEPT ![ConnOf(w)] = Append(@, task)]
        /\ UNCHANGED <<configVars, sideVars, m_clients, m_dispatched, m_finished,
                       finalReports, lastReport, serverPc, pending, peerOf, alive,
                       workerVars>>

NextWorker ==
    \/ ClientConnectTo
    \/ OnNewConnection
    \/ ClientOnConnected
    \/ CoordinatorTask
    \/ ClientOnFrame
    \/ ClientOnDisconnected

\* One worker whose connection is accepted and written any Task frames, any
\* number of them before it reads.
WorkerSpec == InitSingle /\ [][NextWorker]_vars

\* The coordinator with exactly N workers. Both event loops keep running
\* handlers while one is ready: the system does not stop while a step is possible.
LiveSpec == Init /\ [][NextSys]_vars /\ WF_vars(NextSys)

\* ----------------------------------------------------------------- framing
\* Everything but the variables of the framing layer and of the codec.
mainVars ==
    <<configVars, serverVars, serverPc, pending, peerOf, alive, workerVars,
      rejectedFrames, engineVars, orderVars>>

\* Byte values a payload is made of, and the payloads sent.
PayloadBytes == { 0, 1 }
Payloads == UNION { [1 .. n -> PayloadBytes] : n \in 0 .. MaxPayloadLen }

\* The frame sendFrame writes: the length prefix followed by the payload.
Frame(payload) == WriteUInt32(Len(payload)) \o payload

\* Mutant: the length read from the prefix is forgotten when the body is
\* not complete yet.
AwaitBody_forget(buf, expected, emitted) ==
    [buffer |-> buf, expectedSize |-> 0, emitted |-> emitted, consumed |-> FALSE]

\* tryConsumeOneFrame returns false with the prefix consumed and
\* m_expectedSize holding the length of the body awaited.
AwaitBody(buf, expected, emitted) ==
    [buffer |-> buf, expectedSize |-> expected, emitted |-> emitted,
     consumed |-> FALSE]

\* Mutant: a length of 0 read from the prefix is taken for "no length read
\* yet" and nothing is emitted for it.
TryConsumeOneFrame_zeroWaits(st) ==
    IF st.expectedSize = 0 /\ Len(st.buffer) < PrefixSize
    THEN [st EXCEPT !.consumed = FALSE]
    ELSE LET expected == IF st.expectedSize = 0 THEN ReadUInt32(st.buffer)
                         ELSE st.expectedSize
             buf == IF st.expectedSize = 0 THEN RemoveLeft(st.buffer, PrefixSize)
                    ELSE st.buffer
         IN  IF Len(buf) < expected \/ expected = 0
             THEN AwaitBody(buf, expected, st.emitted)
             ELSE [buffer |-> RemoveLeft(buf, expected),
                   expectedSize |-> 0,
                   emitted |-> Append(st.emitted, Left(buf, expected)),
                   consumed |-> TRUE]

\* FramedSocket::tryConsumeOneFrame on the state st = [buffer, expectedSize,
\* emitted]; consumed is its return value.
TryConsumeOneFrame(st) ==
    IF st.expectedSize = 0 /\ Len(st.buffer) < PrefixSize
    THEN [st EXCEPT !.consumed = FALSE]
    ELSE LET expected == IF st.expectedSize = 0 THEN ReadUInt32(st.buffer)
                         ELSE st.expectedSize
             buf == IF st.expectedSize = 0 THEN RemoveLeft(st.buffer, PrefixSize)
                    ELSE st.buffer
         IN  IF Len(buf) < expected
             THEN AwaitBody(buf, expected, st.emitted)
             ELSE [buffer |-> RemoveLeft(buf, expected),
                   expectedSize |-> 0,
                   emitted |-> Append(st.emitted, Left(buf, expected)),
                   consumed |-> TRUE]

\* while (tryConsumeOneFrame()) {}
RECURSIVE ConsumeFrames(_)
ConsumeFrames(st) ==
    LET r == TryConsumeOneFrame(st)
    IN  IF r.consumed THEN ConsumeFrames(r) ELSE r

\* FramedSocket::onReadyRead with chunk being what readAll returns: the state
\* when it returns, with the payloads emitted meanwhile.
OnReadyRead(buffer, expectedSize, chunk) ==
    ConsumeFrames([buffer |-> buffer \o chunk, expectedSize |-> expectedSize,
                   emitted |-> << >>, consumed |-> FALSE])

\* FramedSocket::sendFrame(payload) at the sending end.
SendFrame ==
    \E payload \in Payloads :
        /\ Len(framesSent) < MaxFrames
        /\ framesSent' = Append(framesSent, payload)
        /\ socketBytes' = socketBytes \o Frame(payload)
        /\ UNCHANGED <<mainVars, codecVars, m_buffer, m_expectedSize, framesReceived>>

\* readyRead at the receiving end, readAll returning the first k bytes in flight.
ReadyRead ==
    \E k \in 1 .. Len(socketBytes) :
        LET r == OnReadyRead(m_buffer, m_expectedSize, Left(socketBytes, k))
        IN  /\ m_buffer' = r.buffer
            /\ m_expectedSize' = r.expectedSize
            /\ framesReceived' = framesReceived \o r.emitted
            /\ socketBytes' = RemoveLeft(socketBytes, k)
            /\ UNCHANGED <<mainVars, codecVars, framesSent>>

NextFraming == SendFrame \/ ReadyRead

\* One sending FramedSocket and the FramedSocket at the other end of its
\* connection, the bytes cut into reads in any way.
FramingSpec == InitSingle /\ [][NextFraming]_vars

\* ------------------------------------------------------------------- codec
\* serializeHello/Task/Result/Error is called on a message.
Serialize ==
    \E m \in CodecMessages :
        /\ codecMsg = NoMessage
        /\ codecMsg' = m
        /\ codecBuf' = SerializeMsg(m)
        /\ UNCHANGED <<mainVars, framingVars, codecPm>>

\* The payload loses its last byte on the way.
Truncate ==
    /\ codecMsg # NoMessage
    /\ codecPm = << >>
    /\ codecBuf # << >>
    /\ codecBuf' = Left(codecBuf, Len(codecBuf) - 1)
    /\ UNCHANGED <<mainVars, framingVars, codecMsg, codecPm>>

\* One byte of the payload as serialized is replaced by another value.
Damage ==
    \E i \in DamagePositions, v \in DamageBytes :
        /\ codecMsg # NoMessage
        /\ codecPm = << >>
        /\ codecBuf = SerializeMsg(codecMsg)
        /\ i <= Len(codecBuf)
        /\ codecBuf[i] # v
        /\ codecBuf' = [codecBuf EXCEPT ![i] = v]
        /\ UNCHANGED <<mainVars, framingVars, codecMsg, codecPm>>

\* parseMessage is called on the payload.
Parse ==
    /\ codecMsg # NoMessage
    /\ codecPm = << >>
    /\ codecPm' = << ParseMessage(codecBuf) >>
    /\ UNCHANGED <<mainVars, framingVars, codecMsg, codecBuf>>

NextCodec == Serialize \/ Truncate \/ Damage \/ Parse

\* A payload from a serializer, intact, damaged in one byte or cut short,
\* given to parseMessage.
CodecSpec == InitSingle /\ [][NextCodec]_vars

\* ------------------------------------------------------ calls of the engine
\* The arguments tried: ends at 1, on both sides of it and at halves,
\* steps that are negative, zero and positive, the three methods and a
\* method byte that is none of them.
EnginePoints == {Rat(k, 2) : k \in {0, 1, 2, 3, 4, 6, 9}}
EngineSteps == {RInt(-1), RInt(0), Rat(1, 2), RInt(1)}
EngineMethods == {"MidpointRectangles", "Trapezoids", "Simpson", "Unknown"}

\* integrate(a, b, h, method) is called.
IntegrateCall ==
    \E a \in EnginePoints, b \in EnginePoints, h \in EngineSteps,
       method \in EngineMethods :
        /\ engineCall = << >>
        /\ engineCall' = << [a |-> a, b |-> b, h |-> h, method |-> method] >>
        /\ engineResult' = << Integrate(a, b, h, method) >>
        /\ UNCHANGED <<configVars, serverVars, serverPc, pending, peerOf, alive,
                       workerVars, rejectedFrames, framingVars, codecVars, orderVars>>

NextEngine == IntegrateCall

\* One call of Integrator::integrate with any of the arguments tried.
EngineSpec == InitSingle /\ [][NextEngine]_vars

\* ------------------------------------------------------------------ claims
NClients == Len(m_clients)

\* What the last report of a connection contributes: its value, 0 for an Error.
ClaimContribution(r) == IF r.type = "Result" THEN r.value ELSE 0

RECURSIVE ClaimSumOfLast(_, _)
ClaimSumOfLast(reports, i) ==
    IF i = 0 THEN 0
    ELSE ClaimContribution(reports[i]) + ClaimSumOfLast(reports, i - 1)

\* Some Task frame is written in this step.
TaskWritten ==
    \E i \in 1 .. Len(taskOut) : Len(taskOut'[i]) > Len(taskOut[i])

\* C1: a Task frame is written only by a step that leaves exactly N accepted
\* connections, every one of them with helloReceived = true.
C1_TasksOnlyWhenAllAdvertised ==
    [][TaskWritten =>
          /\ Len(m_clients') = m_expectedClients
          /\ \A i \in 1 .. Len(m_clients') : m_clients'[i].helloReceived]_vars

\* Tasks have been sent to a complete, fully advertised population of two or more.
C1_Witness ==
    /\ m_dispatched
    /\ m_expectedClients >= 2
    /\ NClients = m_expectedClients
    /\ \A i \in 1 .. NClients : Len(taskOut[i]) = 1 /\ m_clients[i].helloReceived

\* C2: dispatch happens at most once and gives each of the N accepted peers
\* exactly one Task: no connection is ever written a second Task, whatever
\* Hellos arrive before or after.
C2_OneTaskPerPeer ==
    /\ \A i \in 1 .. Len(taskOut) : Len(taskOut[i]) <= 1
    /\ m_dispatched =>
           /\ NClients >= m_expectedClients
           /\ \A i \in 1 .. m_expectedClients : Len(taskOut[i]) = 1
    /\ ~m_dispatched => \A i \in 1 .. Len(taskOut) : Len(taskOut[i]) = 0

\* A Hello has been handled after the dispatch: a connection accepted after it
\* (beyond N) has advertised, and still nobody holds two Tasks.
C2_Witness ==
    /\ m_dispatched
    /\ NClients > m_expectedClients
    /\ \A i \in 1 .. NClients : m_clients[i].helloReceived

\* C3: the final result is reported at most once, by a step that sets
\* m_finished, with tasks dispatched and every client of the list reported;
\* m_finished is set by no other step.
C3_FinalizeOnceWhenAllReported ==
    [][(finalReports' # finalReports \/ m_finished' # m_finished) =>
          /\ finalReports = << >>
          /\ Len(finalReports') = 1
          /\ ~m_finished
          /\ m_finished'
          /\ m_dispatched'
          /\ \A i \in 1 .. Len(m_clients') : m_clients'[i].resultReceived]_vars

\* Done has been reached with two or more peers, and a later report has gone
\* through maybeFinalize without a second final report.
C3_Witness ==
    /\ m_finished
    /\ Len(finalReports) = 1
    /\ m_expectedClients >= 2
    /\ finalReports[1] # ClaimSumOfLast(lastReport, Len(lastReport))

\* C4: the dispatched sub-intervals are contiguous and cover the global
\* interval: the first starts at m_a, the last ends at m_b, each ends where
\* the next starts.
C4_PartitionContiguous ==
    m_dispatched =>
        /\ taskOut[1][1].a = RInt(m_a)
        /\ taskOut[m_expectedClients][1].b = RInt(m_b)
        /\ \A i \in 1 .. (m_expectedClients - 1) :
               taskOut[i][1].b = taskOut[i + 1][1].a

\* Three tasks with two inner boundaries, neither at an integer.
C4_Witness ==
    /\ m_dispatched
    /\ m_expectedClients = 3
    /\ taskOut[1][1].b.d # 1
    /\ taskOut[2][1].b.d # 1

\* max(1, cores) written out for the claims.
ClaimWeight(c) == IF c.cores < 1 THEN 1 ELSE c.cores

RECURSIVE ClaimTotalWeight(_, _)
ClaimTotalWeight(clients, i) ==
    IF i = 0 THEN 0
    ELSE ClaimWeight(clients[i]) + ClaimTotalWeight(clients, i - 1)

\* The share of client i: w_i / W of m_b - m_a.
ClaimShare(clients, i) ==
    Rat((m_b - m_a) * ClaimWeight(clients[i]),
        ClaimTotalWeight(clients, Len(clients)))

\* C5: the i-th accepted peer's Task has length (w_i / W) * (m_b - m_a), with
\* w_i = max(1, cores_i) and W the sum of the weights, and carries index i;
\* N = 2 with cores <<1, 3>> on [2, 10] gives [2, 4] and [4, 10].
C5_ProportionalSplit ==
    [][(~m_dispatched /\ m_dispatched') =>
          /\ \A i \in 1 .. Len(m_clients') :
                 LET t == taskOut'[i][Len(taskOut'[i])]
                 IN  /\ RSub(t.b, t.a) = ClaimShare(m_clients', i)
                     /\ t.clientIndex = i - 1
                     /\ t.clientCount = Len(m_clients')
          /\ (/\ m_a = 2
              /\ m_b = 10
              /\ Len(m_clients') = 2
              /\ m_clients'[1].cores = 1
              /\ m_clients'[2].cores = 3) =>
                 /\ taskOut'[1][1].a = RInt(2) /\ taskOut'[1][1].b = RInt(4)
                 /\ taskOut'[2][1].a = RInt(4) /\ taskOut'[2][1].b = RInt(10)]_vars

\* The 1:3 split of [2, 10] has been dispatched.
C5_Witness ==
    /\ m_dispatched
    /\ m_expectedClients = 2
    /\ taskOut[1][1].a = RInt(2) /\ taskOut[1][1].b = RInt(4)
    /\ taskOut[2][1].a = RInt(4) /\ taskOut[2][1].b = RInt(10)

\* C6: the value reported at Done is the sum, over all connections, of what
\* the last Result/Error read from each contributes; every connection has
\* reported.
C6_FinalSumOfLastReports ==
    [][finalReports' # finalReports =>
          /\ \A i \in 1 .. Len(lastReport') : lastReport'[i].type # "None"
          /\ finalReports'[Len(finalReports')] =
                 ClaimSumOfLast(lastReport', Len(lastReport'))]_vars

\* Done with one peer contributing its value and another, whose last report
\* was an Error, contributing 0.
C6_Witness ==
    /\ m_finished
    /\ NClients = 2
    /\ finalReports = <<2>>
    /\ \E i \in 1 .. NClients : lastReport[i].type = "Error"
    /\ \E i \in 1 .. NClients : lastReport[i].type = "Result"

\* C7: once m_finished, no step changes any ClientState or reports again.
C7_NothingChangesAfterDone ==
    [][m_finished =>
          /\ \A i \in 1 .. Len(m_clients) : m_clients'[i] = m_clients[i]
          /\ finalReports' = finalReports]_vars

\* C8: never more than N ClientState entries.
C8_AtMostNClients == NClients <= m_expectedClients

\* C9: when N accepted peers have sent their Hello, tasks have been dispatched.
C9_DispatchedOnceNAdvertised ==
    Cardinality({i \in 1 .. NClients : m_clients[i].helloReceived})
        >= m_expectedClients
    => m_dispatched

\* The run is over: the coordinator reported and left exec(), every worker's
\* reply was read, and every worker closed its connection and left exec().
AllTerminated ==
    /\ m_finished
    /\ Len(finalReports) = 1
    /\ serverPc = "exited"
    /\ NClients = m_expectedClients
    /\ \A i \in 1 .. NClients : lastReport[i].type \in {"Result", "Error"}
    /\ \A w \in Workers : wpc[w] = "exited" /\ taskRead[w] = 1 /\ toServer[w] = << >>

\* C10: with N workers and fair scheduling, the coordinator eventually
\* reaches Done and quits, and every worker eventually sends its Result or
\* Error, closes its connection and terminates.
C10_EventuallyAllTerminate == <>AllTerminated

\* A run of two or more workers is over, one of them having replied with an Error.
C10_Witness ==
    /\ AllTerminated
    /\ m_expectedClients >= 2
    /\ \E i \in 1 .. NClients : lastReport[i].type = "Error"

\* C11: a frame the coordinator fails to decode, or a Task frame, is dropped
\* with a warning: the step changes no ClientState, neither flag, no Task
\* written and no report, and leaves every connection open; after it a
\* well-formed frame on any open connection is still handled and applied.
C11_RejectedFrameIsLocal ==
    /\ [][rejectedFrames' # rejectedFrames =>
             /\ m_clients' = m_clients
             /\ m_dispatched' = m_dispatched
             /\ m_finished' = m_finished
             /\ alive' = alive
             /\ taskOut' = taskOut
             /\ finalReports' = finalReports]_vars
    /\ [](rejectedFrames > 0 =>
             \A idx \in 1 .. NClients :
                 (serverPc = "running" /\ alive[idx]) =>
                     /\ ENABLED (PeerFrameOn(idx, Hello(3))
                                    /\ m_clients'[idx].helloReceived
                                    /\ m_clients'[idx].cores = 3)
                     /\ ENABLED (PeerFrameOn(idx, Result(2))
                                    /\ m_clients'[idx].resultReceived
                                    /\ m_clients'[idx].result = 2))

\* A frame has been dropped in a run of two or more peers whose tasks are out
\* and in which an open connection has still to report.
C11_Witness ==
    /\ rejectedFrames > 0
    /\ m_expectedClients >= 2
    /\ m_dispatched
    /\ ~m_finished
    /\ \E idx \in 1 .. NClients : alive[idx] /\ ~m_clients[idx].resultReceived

\* C12: the step in which a peer's connection closes changes nothing of the
\* coordinator (the ClientState list, the flags, the Tasks written, the
\* reports); and while some connection is closed with no Result or Error
\* read from it, the coordinator is not Done.
C12_DisconnectChangesNothing ==
    /\ [][(\E i \in 1 .. Len(alive) : alive[i] /\ ~alive'[i]) =>
             /\ m_clients' = m_clients
             /\ m_dispatched' = m_dispatched
             /\ m_finished' = m_finished
             /\ taskOut' = taskOut
             /\ finalReports' = finalReports]_vars
    /\ []((\E i \in 1 .. Len(alive) : ~alive[i] /\ lastReport[i].type = "None")
             => ~m_finished)

\* After dispatch to two or more peers one has left without reporting, every
\* other peer has reported, and the coordinator still waits.
C12_Witness ==
    /\ m_dispatched
    /\ ~m_finished
    /\ m_expectedClients >= 2
    /\ \E i \in 1 .. NClients :
           /\ ~alive[i]
           /\ lastReport[i].type = "None"
           /\ Len(taskOut[i]) = 1
           /\ \A j \in (1 .. NClients) \ {i} : m_clients[j].resultReceived

\* The bytes sendFrame has written for the payloads of frames, in order.
RECURSIVE ClaimStream(_)
ClaimStream(frames) ==
    IF frames = << >> THEN << >>
    ELSE WriteUInt32(Len(Head(frames))) \o Head(frames) \o ClaimStream(Tail(frames))

\* C13: however the byte stream is cut into reads, the payloads emitted are,
\* in order, the payloads sent: always the first ones of them, all of them
\* once every byte is read, and then the same as onReadyRead emits when it is
\* given the whole stream as one chunk.
C13_ReassemblyIndependentOfCuts ==
    /\ Len(framesReceived) <= Len(framesSent)
    /\ framesReceived = SubSeq(framesSent, 1, Len(framesReceived))
    /\ socketBytes = << >> =>
           /\ framesReceived = framesSent
           /\ framesReceived = OnReadyRead(<< >>, 0, ClaimStream(framesSent)).emitted
           /\ m_buffer = << >>

\* Two frames were sent; the first has been emitted, the reads so far ended
\* after the prefix and the first byte of the second, whose last byte is
\* still in flight.
C13_Witness ==
    /\ Len(framesSent) = 2
    /\ Len(framesReceived) = 1
    /\ Len(framesSent[2]) = 2
    /\ m_expectedSize = 2
    /\ Len(m_buffer) = 1
    /\ Len(socketBytes) = 1

\* C14: parseMessage of what serializeHello/Task/Result/Error returned
\* succeeds, with the type of the message and a body equal to it in every field.
C14_CodecRoundTrip ==
    (codecPm # << >> /\ codecBuf = SerializeMsg(codecMsg)) =>
        LET pm == codecPm[1]
        IN  /\ pm.ok
            /\ pm.env.type = codecMsg.type
            /\ codecMsg.type = TypeHello => pm.hello.cores = codecMsg.hello.cores
            /\ codecMsg.type = TypeTask =>
                   /\ pm.task.a = codecMsg.task.a
                   /\ pm.task.b = codecMsg.task.b
                   /\ pm.task.h = codecMsg.task.h
                   /\ pm.task.method = codecMsg.task.method
                   /\ pm.task.clientIndex = codecMsg.task.clientIndex
                   /\ pm.task.clientCount = codecMsg.task.clientCount
            /\ codecMsg.type = TypeResult => pm.result.value = codecMsg.result.value
            /\ codecMsg.type = TypeError => pm.error.text = codecMsg.error.text

\* An ErrorMsg with an empty, non-null text has been serialized and parsed.
C14_Witness ==
    /\ codecPm # << >>
    /\ codecMsg.type = TypeError
    /\ codecMsg.error.text = EmptyText
    /\ codecBuf = SerializeMsg(codecMsg)
    /\ codecPm[1].error.text = EmptyText

\* The payload is too short for the envelope (7 bytes) or for the body of the
\* type its envelope declares: 4 bytes for Hello, 33 for Task, 8 for Result,
\* for Error the 4 bytes of the length and, unless they say null, the bytes
\* they announce.
ClaimTooShort(buf) ==
    \/ Len(buf) < 7
    \/ buf[7] = 1 /\ Len(buf) < 7 + 4
    \/ buf[7] = 2 /\ Len(buf) < 7 + 33
    \/ buf[7] = 3 /\ Len(buf) < 7 + 8
    \/ buf[7] = 4 /\ Len(buf) < 7 + 4
    \/ /\ buf[7] = 4
       /\ Len(buf) >= 7 + 4
       /\ SubSeq(buf, 8, 11) # << 255, 255, 255, 255 >>
       /\ Len(buf) - 11 < buf[8] * 16777216 + buf[9] * 65536 + buf[10] * 256 + buf[11]

\* The payload's magic, version or type byte is not the protocol's.
ClaimForeign(buf) ==
    Len(buf) >= 7 /\ \/ SubSeq(buf, 1, 4) # << 78, 80, 82, 74 >>
                     \/ SubSeq(buf, 5, 6) # << 0, 1 >>
                     \/ buf[7] \notin { 1, 2, 3, 4 }

\* C15: parseMessage fails, with a parseError that is not empty, whenever the
\* magic, the version or the type byte is not the protocol's or the payload is
\* too short for the envelope or for the body of its type; it succeeds only
\* when none of these holds.
C15_ParseFailsOnBadPayload ==
    codecPm # << >> =>
        /\ (ClaimForeign(codecBuf) \/ ClaimTooShort(codecBuf)) =>
               ~codecPm[1].ok /\ codecPm[1].parseError # ""
        /\ codecPm[1].ok => ~ClaimForeign(codecBuf) /\ ~ClaimTooShort(codecBuf)

\* A payload of full length with the right magic and type, whose version was
\* damaged, has been refused.
C15_Witness ==
    /\ codecPm # << >>
    /\ ~codecPm[1].ok
    /\ Len(codecBuf) = Len(SerializeMsg(codecMsg))
    /\ SubSeq(codecBuf, 1, 4) = << 78, 80, 82, 74 >>
    /\ SubSeq(codecBuf, 5, 6) # << 0, 1 >>
    /\ codecBuf[7] = codecMsg.type

\* The sum of the values the futures 0 .. threads-1 hold, from i on.
RECURSIVE ClaimSum(_, _, _)
ClaimSum(res, threads, i) ==
    IF i >= threads THEN FZero ELSE FAdd(res[i].value, ClaimSum(res, threads, i + 1))

\* What the claim allows as the reply to a task split over `threads` chunks.
ClaimReply(task, threads, msg) ==
    LET res == [i \in 0 .. (threads - 1) |->
                    Integrate(RAdd(task.a, RDiv(RMul(RInt(i), RSub(task.b, task.a)),
                                                RInt(threads))),
                              RAdd(task.a, RDiv(RMul(RInt(i + 1), RSub(task.b, task.a)),
                                                RInt(threads))),
                              RInt(task.h), task.method)]
        failed == {i \in 0 .. (threads - 1) : res[i].threw}
    IN  IF failed = {}
        THEN msg.type = "Result" /\ msg.value = ClaimSum(res, threads, 0)
        ELSE /\ msg.type = "Error"
             /\ msg.text # ""
             /\ msg.text \in {res[i].what : i \in failed}

C17_OneTaskPerConnection ==
    \A w \in Workers : taskRead[w] <= 1

\* C18: on every connection of the composed system the worker's first message
\* is its Hello, sent at connecting; the coordinator writes a Task to a
\* connection only when the Hello of that connection has been received; the
\* worker sends a Result or an Error only in the step that receives its Task.
C18_HelloTaskReplyOrder ==
    /\ [][/\ \A w \in Workers :
                 Len(toServer'[w]) > Len(toServer[w]) =>
                     LET m == toServer'[w][Len(toServer'[w])]
                     IN  IF wpc[w] = "connecting"
                         THEN /\ m.type = "Hello"
                              /\ toServer[w] = << >>
                              /\ taskRead'[w] = 0
                         ELSE /\ m.type \in {"Result", "Error"}
                              /\ wpc[w] = "connected"
                              /\ taskRead[w] = 0
                              /\ taskRead'[w] = 1
          /\ \A c \in 1 .. Len(taskOut) :
                 Len(taskOut'[c]) > Len(taskOut[c]) =>
                     /\ taskOut[c] = << >>
                     /\ c <= Len(m_clients')
                     /\ m_clients'[c].helloReceived
                     /\ peerOf[c] # 0
                     /\ wpc[peerOf[c]] = "connected"
                     /\ \A i \in 1 .. Len(toServer'[peerOf[c]]) :
                            toServer'[peerOf[c]][i].type # "Hello"]_vars
    /\ [](\A w \in Workers :
              /\ wpc[w] \in {"start", "connecting"} =>
                     toServer[w] = << >> /\ taskRead[w] = 0
              /\ taskRead[w] > 0 =>
                     /\ ConnOf(w) # 0
                     /\ Len(taskOut[ConnOf(w)]) = 1
                     /\ m_clients[ConnOf(w)].helloReceived)

\* Three workers ran: each sent its Hello, was sent its Task and replied, and
\* the coordinator has read a Result.
C18_Witness ==
    /\ m_expectedClients = 3
    /\ \A w \in 1 .. 3 : taskRead[w] = 1 /\ toServer[w] = << >> /\ wpc[w] = "exited"
    /\ \E i \in 1 .. 3 : lastReport[i].type = "Result"

\* C19: a call of integrate with h <= 0 throws the domain error, whatever the
\* interval (a = b, an interval with or without 1) and the method: it
\* returns no value.
C19_RejectsNonPositiveStep ==
    (engineCall # << >> /\ engineCall[1].h.n <= 0) =>
        /\ engineResult[1].threw
        /\ engineResult[1].what # ""

\* integrate(2, 2, -1, Simpson) has thrown: a = b and a negative step.
C19_Witness ==
    /\ engineCall # << >>
    /\ engineCall[1].a = RInt(2)
    /\ engineCall[1].b = RInt(2)
    /\ engineCall[1].h = RInt(-1)
    /\ engineCall[1].method = "Simpson"
    /\ engineResult[1].threw

\* C20: a call of integrate with h > 0 throws whenever 1 lies in
\* [min(a, b), max(a, b)], the single point a = b = 1 included.
C20_RejectsSingularity ==
    (/\ engineCall # << >>
     /\ engineCall[1].h.n > 0
     /\ \/ RLe(engineCall[1].a, RInt(1)) /\ RLe(RInt(1), engineCall[1].b)
        \/ RLe(engineCall[1].b, RInt(1)) /\ RLe(RInt(1), engineCall[1].a))
    => engineResult[1].threw

C22_Antisymmetric ==
    (/\ engineCall # << >>
     /\ engineCall[1].a # engineCall[1].b
     /\ engineCall[1].h.n > 0
     /\ ~(/\ RLe(RMin(engineCall[1].a, engineCall[1].b), RInt(1))
          /\ RLe(RInt(1), RMax(engineCall[1].a, engineCall[1].b)))
     /\ engineCall[1].method \in {"MidpointRectangles", "Trapezoids", "Simpson"})
    => /\ ~engineResult[1].threw
       /\ engineResult[1].value =
              FScale(RInt(-1),
                     Integrate(engineCall[1].b, engineCall[1].a, engineCall[1].h,
                               engineCall[1].method).value)

\* The number of full steps of the claim, floor(|b - a| / h), and its signed step.
ClaimSteps(c) ==
    LET q == RDiv(RAbs(RSub(c.b, c.a)), c.h) IN q.n \div q.d
ClaimStep(c) == IF RLt(c.a, c.b) THEN c.h ELSE RSub(RInt(0), c.h)
\* The point a + k * step / 2.
ClaimHalfPoint(c, k) == RAdd(c.a, RMul(Rat(k, 2), ClaimStep(c)))

\* The value the claim gives for each method, as the sum of weight * f(point).
ClaimMidpoint(c) ==
    {[x |-> ClaimHalfPoint(c, 2 * i + 1), c |-> ClaimStep(c)] :
         i \in 0 .. (ClaimSteps(c) - 1)}
ClaimTrapezoids(c) ==
    LET n == ClaimSteps(c)
    IN  IF n = 0 THEN {}
        ELSE {[x |-> ClaimHalfPoint(c, 2 * i),
               c |-> RMul(ClaimStep(c), IF i \in {0, n} THEN Rat(1, 2) ELSE RInt(1))] :
                  i \in 0 .. n}
ClaimSimpson(c) ==
    LET n == ClaimSteps(c)
        even == n - (n % 2)
    IN  IF n < 2 THEN ClaimTrapezoids(c)
        ELSE {[x |-> ClaimHalfPoint(c, 2 * i),
               c |-> RMul(RDiv(ClaimStep(c), RInt(3)),
                          IF i \in {0, even} THEN RInt(1)
                          ELSE IF i % 2 = 1 THEN RInt(4) ELSE RInt(2))] :
                  i \in 0 .. even}

\* C25: a call that returns from one of the three methods has used
\* n = floor(|b - a| / h) steps from a and dropped the remainder: Midpoint
\* sums the n midpoints, Trapezoids is 0 for n = 0, Simpson is the Trapezoids
\* value for n < 2 and else the 1-4-2-...-4-1 rule times step / 3 over the
\* points a + i * step, i = 0 .. n - (n mod 2).
C25_StepCountPolicy ==
    (/\ engineCall # << >>
     /\ ~engineResult[1].threw
     /\ engineCall[1].a # engineCall[1].b)
    => engineResult[1].value =
           CASE engineCall[1].method = "MidpointRectangles" -> ClaimMidpoint(engineCall[1])
             [] engineCall[1].method = "Trapezoids" -> ClaimTrapezoids(engineCall[1])
             [] engineCall[1].method = "Simpson" -> ClaimSimpson(engineCall[1])

\* integrate(3/2, 9/2, 1, Simpson): three steps, of which Simpson uses two,
\* has returned (f(3/2) + 4 f(5/2) + f(7/2)) / 3.
C25_Witness ==
    /\ engineCall = << [a |-> Rat(3, 2), b |-> Rat(9, 2), h |-> RInt(1),
                        method |-> "Simpson"] >>
    /\ ~engineResult[1].threw
    /\ engineResult[1].value =
           {[x |-> Rat(3, 2), c |-> Rat(1, 3)], [x |-> Rat(5, 2), c |-> Rat(4, 3)],
            [x |-> Rat(7, 2), c |-> Rat(1, 3)]}

\* C23: every Task the coordinator has written has h > 0 and an interval
\* [min(a, b), max(a, b)] that does not contain 1, for every run main() accepts.
C23_DispatchedTasksInDomain ==
    \A c \in 1 .. Len(taskOut) :
        \A j \in 1 .. Len(taskOut[c]) :
            /\ taskOut[c][j].h > 0
            /\ ~(/\ RLe(RMin(taskOut[c][j].a, taskOut[c][j].b), RInt(1))
                 /\ RLe(RInt(1), RMax(taskOut[c][j].a, taskOut[c][j].b)))

\* C26: a client marked resultReceived was marked when tasks had been
\* dispatched and a Task had been written to it.
C26_ReportedOnlyAfterDispatch ==
    \A i \in 1 .. Len(m_clients) :
        m_clients[i].resultReceived => m_dispatched /\ taskOut[i] # << >>

\* The number of bytes of the first k frames sent, prefixes included.
RECURSIVE ClaimBytes(_, _)
ClaimBytes(frames, k) ==
    IF k = 0 THEN 0 ELSE ClaimBytes(frames, k - 1) + 4 + Len(frames[k])

\* C27: whenever onReadyRead has returned, either no length is awaited and
\* fewer than 4 bytes are buffered, or a length > 0 is awaited and fewer bytes
\* than it are buffered; every frame whose bytes have all been read has been
\* emitted, a frame of length 0 as one empty payload as soon as its prefix is
\* read, and the frames after it intact and in order.
C27_ZeroLengthFrameKeepsSync ==
    LET bytesRead == ClaimBytes(framesSent, Len(framesSent)) - Len(socketBytes)
    IN  /\ \/ m_expectedSize = 0 /\ Len(m_buffer) < 4
           \/ m_expectedSize > 0 /\ Len(m_buffer) < m_expectedSize
        /\ Len(framesReceived) <= Len(framesSent)
        /\ \A k \in 1 .. Len(framesSent) :
               (k <= Len(framesReceived)) <=> (ClaimBytes(framesSent, k) <= bytesRead)
        /\ \A k \in 1 .. Len(framesReceived) : framesReceived[k] = framesSent[k]

\* An empty frame and the frame <<1, 0>> after it were sent and read: both
\* were emitted, the empty payload first, and nothing is left buffered.
C27_Witness ==
    /\ framesSent = << << >>, << 1, 0 >> >>
    /\ framesReceived = framesSent
    /\ socketBytes = << >>
    /\ m_expectedSize = 0
    /\ m_buffer = << >>

\* The sum of what the peers reported, peer by peer: the value of a Result, 0
\* for an Error.
RECURSIVE ClaimReported(_, _)
ClaimReported(reports, i) ==
    IF i = 0 THEN 0
    ELSE (IF reports[i].type = "Result" THEN reports[i].value ELSE 0)
             + ClaimReported(reports, i - 1)

\* C24: with the reports of the peers arriving after dispatch in any order,
\* one per peer, the coordinator is Done exactly from the arrival of the last
\* of them on, and the value it reports is the sum of what each peer
\* reported, whatever the order of arrival was.
C24_ReportOrderIrrelevant ==
    /\ m_finished <=>
           /\ m_dispatched
           /\ Len(reportOrder) = Len(m_clients)
    /\ m_finished =>
           /\ Len(reportOrder) = m_expectedClients
           /\ finalReports = << ClaimReported(lastReport, Len(lastReport)) >>
    /\ ~m_finished => finalReports = << >>

\* Three peers reported in the order 3, 1, 2, an Error among the reports; the
\* coordinator is Done with the sum 3.
C24_Witness ==
    /\ m_finished
    /\ reportOrder = << 3, 1, 2 >>
    /\ lastReport[1].type = "Result" /\ lastReport[1].value = 1
    /\ lastReport[2].type = "Error"
    /\ lastReport[3].type = "Result" /\ lastReport[3].value = 2
    /\ finalReports = << 3 >>

====
